---- MODULE Spec2Model ----
(***************************************************************************)
(* Reserve-requirement constraint builders of EGRET's unit-commitment      *)
(* model library (reserve_requirement.py): CA_reserve_constraints and      *)
(* MLR_reserve_constraints acting on one optimisation model object.        *)
(* Numbers are integers; the Python floats 0., 1., -1. are 0, 1, -1.        *)
(***************************************************************************)
EXTENDS Integers, Sequences, FiniteSets, TLC

VARIABLES
    pc,                          \* position inside the builder that is running
    builder,                     \* which entry point was called on the model
    check_reserve_requirement,   \* result of check_reserve_requirement(model)
    is_var,                      \* is_var(model.X) for the five families of variant A
    ReserveRequirement,          \* model.ReserveRequirement[t]
    TotalDemand,                 \* model.TotalDemand[t]
    ReserveShortfall,            \* model.ReserveShortfall: t -> bounds (<<>> while undeclared)
    shortfallDecls,              \* how often model.ReserveShortfall has been assigned
    linear_expr,                 \* the representation chosen by variant A
    EnforceReserveRequirements   \* model.EnforceReserveRequirements: t -> constraint

vars == <<pc, builder, check_reserve_requirement, is_var, ReserveRequirement,
          TotalDemand, ReserveShortfall, shortfallDecls, linear_expr,
          EnforceReserveRequirements>>

\* ---------------------------------------------------------------- bounds
MaxRequirement == 2    \* largest ReserveRequirement[t] drawn
MaxDemand == 1         \* largest TotalDemand[t] drawn
MaxValue == 1          \* largest value a solver assignment gives a quantity

\* ------------------------------------------------------- model index sets
\* The index sets of the model under construction: two periods, thermal
\* generators {g1,g2}, one non-dispatchable generator, one storage unit and
\* one bus.
TimePeriods == 1..2
LastPeriod == Cardinality(TimePeriods)
ThermalGenerators == <<"g1", "g2">>
AllNondispatchableGenerators == <<"n1">>
Storage == <<"s1">>
Buses == <<"b1">>

VarFamilies == {"MaximumPowerAvailable", "NondispatchablePowerUsed",
                "PowerOutputStorage", "PowerInputStorage", "LoadGenerateMismatch"}

\* One indexed quantity of the model, e.g. MaximumPowerAvailable[g1, 2].
Term(family, i, t) == [var |-> family, idx |-> i, t |-> t]

\* list(m.X[i, t] for i in index)
TermList(family, index, t) == [k \in 1..Len(index) |-> Term(family, index[k], t)]

\* [c] * n
Repeat(c, n) == [k \in 1..n |-> c]

\* ------------------------------------------------ expression representations
\* LinearExpression(linear_vars=..., linear_coefs=...): keeps the two lists.
LinearExpression(linear_vars, linear_coefs) ==
    [repr |-> "LinearExpression", constant |-> 0,
     linear_vars |-> linear_vars, linear_coefs |-> linear_coefs]

linear_summation_unit_start(linear_vars, linear_coefs) ==
    [repr |-> "linear_summation", constant |-> 1,
     terms |-> [k \in 1..Len(linear_vars) |-> <<linear_coefs[k], linear_vars[k]>>]]

\* linear_summation(linear_vars, linear_coefs): the sum of c*v over the zipped
\* lists, started at the constant 0.
linear_summation(linear_vars, linear_coefs) ==
    [repr |-> "linear_summation", constant |-> 0,
     terms |-> [k \in 1..Len(linear_vars) |-> <<linear_coefs[k], linear_vars[k]>>]]

\* sum(m.X[i, t] for i in index) + extra: Python's sum starts at 0 and adds
\* each item with an implicit coefficient 1.
PythonSum(items) ==
    [repr |-> "sum", constant |-> 0,
     terms |-> [k \in 1..Len(items) |-> <<1, items[k]>>]]

\* The monomials <<coefficient, term>> of an expression, in listed order.
Monomials(e) ==
    IF e.repr = "LinearExpression"
    THEN [k \in 1..Len(e.linear_vars) |-> <<e.linear_coefs[k], e.linear_vars[k]>>]
    ELSE e.terms

RECURSIVE SumCoefs(_, _, _)
SumCoefs(ms, x, k) ==
    IF k = 0 THEN 0
    ELSE (IF ms[k][2] = x THEN ms[k][1] ELSE 0) + SumCoefs(ms, x, k - 1)

\* Coefficient of the term x in the expression e (0 when x does not occur).
Coef(e, x) == SumCoefs(Monomials(e), x, Len(Monomials(e)))

\* The terms that occur in e.
TermsOf(e) == {Monomials(e)[k][2] : k \in 1..Len(Monomials(e))}

\* Value of a structured expression: sum over the positions of the two lists.
RECURSIVE EvalStructured(_, _, _, _)
EvalStructured(linear_vars, linear_coefs, val, k) ==
    IF k = 0 THEN 0
    ELSE EvalStructured(linear_vars, linear_coefs, val, k - 1)
         + linear_coefs[k] * val[linear_vars[k]]

\* Value of a summation: running total from the start value, left to right.
RECURSIVE EvalSummation(_, _, _)
EvalSummation(terms, val, acc) ==
    IF terms = <<>> THEN acc
    ELSE EvalSummation(Tail(terms), val, acc + Head(terms)[1] * val[Head(terms)[2]])

\* Numeric value of the expression e under the assignment val.
Evaluate(e, val) ==
    IF e.repr = "LinearExpression"
    THEN e.constant + EvalStructured(e.linear_vars, e.linear_coefs, val, Len(e.linear_vars))
    ELSE EvalSummation(e.terms, val, e.constant)

\* ----------------------------------------------------- _add_reserve_shortfall
_add_reserve_shortfall_always_fixed(fixed) ==
    [t \in TimePeriods |-> [lb |-> 0, ub |-> 0]]

_add_reserve_shortfall_first_period(fixed) ==
    IF fixed
    THEN [t \in TimePeriods |-> [lb |-> 0, ub |-> 0]]
    ELSE [t \in TimePeriods |-> [lb |-> 0, ub |-> ReserveRequirement[1]]]

_add_reserve_shortfall_never_fixed(fixed) ==
    [t \in TimePeriods |-> [lb |-> 0, ub |-> ReserveRequirement[t]]]

\* The Var family assigned to model.ReserveShortfall.
_add_reserve_shortfall(fixed) ==
    IF fixed
    THEN [t \in TimePeriods |-> [lb |-> 0, ub |-> 0]]
    ELSE [t \in TimePeriods |-> [lb |-> 0, ub |-> ReserveRequirement[t]]]

\* --------------------------------------------------------------- variant A
select_linear_expr_any ==
    IF \E f \in VarFamilies : is_var[f]
    THEN "LinearExpression" ELSE "linear_summation"

\* if is_var(..) and is_var(..) and ... : LinearExpression else linear_summation
select_linear_expr ==
    IF /\ is_var["MaximumPowerAvailable"]
       /\ is_var["NondispatchablePowerUsed"]
       /\ is_var["PowerOutputStorage"]
       /\ is_var["PowerInputStorage"]
       /\ is_var["LoadGenerateMismatch"]
    THEN "LinearExpression" ELSE "linear_summation"

\* linear_expr(linear_vars=..., linear_coefs=...) with the chosen callable
ApplyLinearExpr(le, linear_vars, linear_coefs) ==
    IF le = "LinearExpression"
    THEN LinearExpression(linear_vars, linear_coefs)
    ELSE linear_summation(linear_vars, linear_coefs)

CA_positive_vars(t) ==
    TermList("MaximumPowerAvailable", ThermalGenerators, t)
    \o TermList("NondispatchablePowerUsed", AllNondispatchableGenerators, t)
    \o TermList("PowerOutputStorage", Storage, t)
    \o TermList("LoadGenerateMismatch", Buses, t)

CA_rule_storage_input_added(le, t) ==
    LET linear_vars == Append(CA_positive_vars(t), Term("ReserveShortfall", "", t))
        neg_vars == TermList("PowerInputStorage", Storage, t)
    IN  [lower |-> TotalDemand[t] + ReserveRequirement[t],
         body  |-> ApplyLinearExpr(le, linear_vars \o neg_vars,
                                   Repeat(1, Len(linear_vars)) \o Repeat(1, Len(neg_vars))),
         upper |-> "None"]

CA_rule_no_shortfall(le, t) ==
    LET linear_vars == CA_positive_vars(t)
        neg_vars == TermList("PowerInputStorage", Storage, t)
    IN  [lower |-> TotalDemand[t] + ReserveRequirement[t],
         body  |-> ApplyLinearExpr(le, linear_vars \o neg_vars,
                                   Repeat(1, Len(linear_vars)) \o Repeat(-1, Len(neg_vars))),
         upper |-> "None"]

\* enforce_reserve_requirements_rule(m, t) of CA_reserve_constraints: the
\* tuple (lower, body, upper) it returns.
CA_enforce_reserve_requirements_rule(le, t) ==
    LET linear_vars == Append(CA_positive_vars(t), Term("ReserveShortfall", "", t))
        linear_coefs == Repeat(1, Len(linear_vars))
        neg_vars == TermList("PowerInputStorage", Storage, t)
        neg_coefs == Repeat(-1, Len(neg_vars))
    IN  [lower |-> TotalDemand[t] + ReserveRequirement[t],
         body  |-> ApplyLinearExpr(le, linear_vars \o neg_vars, linear_coefs \o neg_coefs),
         upper |-> "None"]

\* --------------------------------------------------------------- variant B
MLR_rule_with_demand(t) ==
    [lower |-> TotalDemand[t] + ReserveRequirement[t],
     body  |-> PythonSum(Append(TermList("ReserveProvided", ThermalGenerators, t),
                                Term("ReserveShortfall", "", t))),
     upper |-> "None"]

\* enforce_reserve_requirements_rule(m, t) of _MLR_reserve_constraint:
\* sum(ReserveProvided[g, t]) + ReserveShortfall[t] >= ReserveRequirement[t].
MLR_enforce_reserve_requirements_rule(t) ==
    [lower |-> ReserveRequirement[t],
     body  |-> PythonSum(Append(TermList("ReserveProvided", ThermalGenerators, t),
                                Term("ReserveShortfall", "", t))),
     upper |-> "None"]

\* Constraint(model.TimePeriods, rule=...) calls the rule for the periods in
\* order; the next period to build is the first one without a constraint.
NextPeriod == Len(EnforceReserveRequirements) + 1

\* ------------------------------------------------------------------- Init
Init ==
    /\ pc = "start"
    /\ builder = "none"
    /\ check_reserve_requirement \in BOOLEAN
    /\ is_var \in [VarFamilies -> BOOLEAN]
    /\ ReserveRequirement \in [TimePeriods -> 0..MaxRequirement]
    /\ TotalDemand \in [TimePeriods -> 0..MaxDemand]
    /\ ReserveShortfall = <<>>
    /\ shortfallDecls = 0
    /\ linear_expr = "unset"
    /\ EnforceReserveRequirements = <<>>

\* Inputs for the feasibility claims: the is_var statuses that lead to the two
\* representations, every requirement and demand profile.
InitSolve ==
    /\ Init
    /\ is_var \in {[f \in VarFamilies |-> TRUE],
                   [f \in VarFamilies |-> f # "LoadGenerateMismatch"]}

\* Inputs for the representation claim: every is_var status, the largest
\* requirement and demand in every period.
InitRepr ==
    /\ Init
    /\ ReserveRequirement = [t \in TimePeriods |-> MaxRequirement]
    /\ TotalDemand = [t \in TimePeriods |-> MaxDemand]

inputs == <<check_reserve_requirement, is_var, ReserveRequirement, TotalDemand>>

\* ------------------------------------------ actions of CA_reserve_constraints
\* if not check_reserve_requirement(model): _add_reserve_shortfall(fixed=True); return
CA_inactive ==
    /\ pc = "start"
    /\ ~check_reserve_requirement
    /\ builder' = "CA"
    /\ ReserveShortfall' = _add_reserve_shortfall(TRUE)
    /\ shortfallDecls' = shortfallDecls + 1
    /\ pc' = "done"
    /\ UNCHANGED <<inputs, linear_expr, EnforceReserveRequirements>>

\* _add_reserve_shortfall(model)
CA_add_shortfall ==
    /\ pc = "start"
    /\ check_reserve_requirement
    /\ builder' = "CA"
    /\ ReserveShortfall' = _add_reserve_shortfall(FALSE)
    /\ shortfallDecls' = shortfallDecls + 1
    /\ pc' = "CA_select"
    /\ UNCHANGED <<inputs, linear_expr, EnforceReserveRequirements>>

\* the if/else that binds linear_expr
CA_select ==
    /\ pc = "CA_select"
    /\ linear_expr' = select_linear_expr
    /\ pc' = "CA_rule"
    /\ UNCHANGED <<inputs, builder, ReserveShortfall, shortfallDecls,
                   EnforceReserveRequirements>>

\* one call of the rule by Constraint(model.TimePeriods, rule=...)
CA_rule ==
    /\ pc = "CA_rule"
    /\ NextPeriod \in TimePeriods
    /\ EnforceReserveRequirements' =
           Append(EnforceReserveRequirements,
                  CA_enforce_reserve_requirements_rule(linear_expr, NextPeriod))
    /\ pc' = IF NextPeriod = LastPeriod THEN "done" ELSE "CA_rule"
    /\ UNCHANGED <<inputs, builder, ReserveShortfall, shortfallDecls, linear_expr>>

\* ----------------------------------------- actions of MLR_reserve_constraints
\* the first statement: _add_reserve_shortfall(model, fixed=True)
MLR_default_shortfall ==
    /\ pc = "start"
    /\ builder' = "MLR"
    /\ ReserveShortfall' = _add_reserve_shortfall(TRUE)
    /\ shortfallDecls' = shortfallDecls + 1
    /\ pc' = "MLR_check"
    /\ UNCHANGED <<inputs, linear_expr, EnforceReserveRequirements>>

\* if not check_reserve_requirement(model): _add_reserve_shortfall(fixed=True); return
MLR_inactive ==
    /\ pc = "MLR_check"
    /\ ~check_reserve_requirement
    /\ ReserveShortfall' = _add_reserve_shortfall(TRUE)
    /\ shortfallDecls' = shortfallDecls + 1
    /\ pc' = "done"
    /\ UNCHANGED <<inputs, builder, linear_expr, EnforceReserveRequirements>>

MLR_add_shortfall_no_constraint ==
    /\ pc = "MLR_check"
    /\ check_reserve_requirement
    /\ ReserveShortfall' = _add_reserve_shortfall(FALSE)
    /\ shortfallDecls' = shortfallDecls + 1
    /\ pc' = "done"
    /\ UNCHANGED <<inputs, builder, linear_expr, EnforceReserveRequirements>>

\* _add_reserve_shortfall(model), then on to _MLR_reserve_constraint(model)
MLR_add_shortfall ==
    /\ pc = "MLR_check"
    /\ check_reserve_requirement
    /\ ReserveShortfall' = _add_reserve_shortfall(FALSE)
    /\ shortfallDecls' = shortfallDecls + 1
    /\ pc' = "MLR_rule"
    /\ UNCHANGED <<inputs, builder, linear_expr, EnforceReserveRequirements>>

\* one call of the rule by Constraint(model.TimePeriods, rule=...)
MLR_rule ==
    /\ pc = "MLR_rule"
    /\ NextPeriod \in TimePeriods
    /\ EnforceReserveRequirements' =
           Append(EnforceReserveRequirements,
                  MLR_enforce_reserve_requirements_rule(NextPeriod))
    /\ pc' = IF NextPeriod = LastPeriod THEN "done" ELSE "MLR_rule"
    /\ UNCHANGED <<inputs, builder, ReserveShortfall, shortfallDecls, linear_expr>>

Next ==
    \/ CA_inactive
    \/ CA_add_shortfall
    \/ CA_select
    \/ CA_rule
    \/ MLR_default_shortfall
    \/ MLR_inactive
    \/ MLR_add_shortfall
    \/ MLR_rule

Spec == Init /\ [][Next]_vars

SpecSolve == InitSolve /\ [][Next]_vars

SpecRepr == InitRepr /\ [][Next]_vars

\* ------------------------------------------------- assignments of values
\* The quantities other than ReserveShortfall in variant A's constraint of t.
CapacityTerms(t) ==
    {Term("MaximumPowerAvailable", ThermalGenerators[k], t) : k \in DOMAIN ThermalGenerators}
    \cup {Term("NondispatchablePowerUsed", AllNondispatchableGenerators[k], t) :
              k \in DOMAIN AllNondispatchableGenerators}
    \cup {Term("PowerOutputStorage", Storage[k], t) : k \in DOMAIN Storage}
    \cup {Term("PowerInputStorage", Storage[k], t) : k \in DOMAIN Storage}

MismatchTerms(t) == {Term("LoadGenerateMismatch", Buses[k], t) : k \in DOMAIN Buses}

ProvidedTerms(t) ==
    {Term("ReserveProvided", ThermalGenerators[k], t) : k \in DOMAIN ThermalGenerators}

ShortfallTerm(t) == Term("ReserveShortfall", "", t)

\* Values of the capacity quantities of period t.
CapacityAssignments(t) == [CapacityTerms(t) \cup MismatchTerms(t) -> 0..MaxValue]

ProvidedAssignments(t) == [ProvidedTerms(t) -> 0..MaxValue]

WithShortfall(val, t, s) == val @@ (ShortfallTerm(t) :> s)

\* The constraint c holds under the assignment val.
Satisfied(c, val) == Evaluate(c.body, val) >= c.lower

RECURSIVE SeqSum(_, _, _, _)
SeqSum(family, index, t, val) ==
    IF index = <<>> THEN 0
    ELSE val[Term(family, Head(index), t)] + SeqSum(family, Tail(index), t, val)

\* Net capacity of period t under val.
NetCapacity(val, t) ==
    SeqSum("MaximumPowerAvailable", ThermalGenerators, t, val)
    + SeqSum("NondispatchablePowerUsed", AllNondispatchableGenerators, t, val)
    + SeqSum("PowerOutputStorage", Storage, t, val)
    + SeqSum("LoadGenerateMismatch", Buses, t, val)
    - SeqSum("PowerInputStorage", Storage, t, val)

AllAreVars == \A f \in VarFamilies : is_var[f]

Built == DOMAIN EnforceReserveRequirements

\* --------------------------------------------------------------------- C1
\* C1: variant A, requirement active: the body of EnforceReserveRequirements[t]
\* has coefficient +1 on every MaximumPowerAvailable[g,t],
\* NondispatchablePowerUsed[n,t], PowerOutputStorage[s,t],
\* LoadGenerateMismatch[b,t] and on ReserveShortfall[t], coefficient -1 on
\* every PowerInputStorage[s,t], and no other term; the lower bound is
\* TotalDemand[t] + ReserveRequirement[t] and there is no upper bound.
C1_VariantABody ==
    builder = "CA" =>
        \A t \in Built :
            LET c == EnforceReserveRequirements[t]
                plus == (CapacityTerms(t) \cup MismatchTerms(t) \cup {ShortfallTerm(t)})
                            \ {x \in CapacityTerms(t) : x.var = "PowerInputStorage"}
                minus == {x \in CapacityTerms(t) : x.var = "PowerInputStorage"}
            IN  /\ \A x \in plus : Coef(c.body, x) = 1
                /\ \A x \in minus : Coef(c.body, x) = -1
                /\ TermsOf(c.body) = plus \cup minus
                /\ Len(Monomials(c.body)) = Cardinality(plus \cup minus)
                /\ c.body.constant = 0
                /\ c.lower = TotalDemand[t] + ReserveRequirement[t]
                /\ c.upper = "None"

C1_Witness ==
    /\ builder = "CA" /\ pc = "done" /\ check_reserve_requirement
    /\ Built = TimePeriods
    /\ TotalDemand[1] > 0 /\ ReserveRequirement[1] > 0

C3_ActiveBounds ==
    (pc = "done" /\ check_reserve_requirement) =>
        \A t \in TimePeriods :
            /\ t \in DOMAIN ReserveShortfall
            /\ ReserveShortfall[t] = [lb |-> 0, ub |-> ReserveRequirement[t]]
            /\ t \in Built

C3_Witness ==
    /\ pc = "done" /\ check_reserve_requirement
    /\ ReserveRequirement[1] = MaxRequirement /\ ReserveRequirement[2] = 0
    /\ ReserveShortfall[1].ub = MaxRequirement /\ ReserveShortfall[2].ub = 0
    /\ 2 \in Built

\* --------------------------------------------------------------------- C4
\* C4: requirement inactive, after either builder returns: ReserveShortfall[t]
\* has bounds [0, 0] for every t whatever ReserveRequirement is, and no
\* EnforceReserveRequirements constraint has been added.
C4_InactiveFixed ==
    (pc = "done" /\ ~check_reserve_requirement) =>
        /\ \A t \in TimePeriods :
               /\ t \in DOMAIN ReserveShortfall
               /\ ReserveShortfall[t] = [lb |-> 0, ub |-> 0]
        /\ Built = {}

C4_Witness ==
    /\ pc = "done" /\ ~check_reserve_requirement
    /\ ReserveRequirement[1] > 0
    /\ ReserveShortfall[1].ub = 0

\* --------------------------------------------------------------------- C5
IsMaxPowerForm(c) == \E x \in TermsOf(c.body) : x.var = "MaximumPowerAvailable"
IsProvidedForm(c) == \E x \in TermsOf(c.body) : x.var = "ReserveProvided"

ShortfallConsistent ==
    \A t \in TimePeriods :
        /\ t \in DOMAIN ReserveShortfall
        /\ ReserveShortfall[t] =
               [lb |-> 0, ub |-> IF check_reserve_requirement
                                 THEN ReserveRequirement[t] ELSE 0]

ExactlyOneConstraint(t) ==
    /\ t \in Built
    /\ IsMaxPowerForm(EnforceReserveRequirements[t])
           # IsProvidedForm(EnforceReserveRequirements[t])

\* C5 as stated: after a builder has run, every period has exactly one reserve
\* constraint (one form or the other, never both) and ReserveShortfall[t]
\* exists with bounds consistent with the activity of the requirement.
C5_Original ==
    pc = "done" =>
        /\ \A t \in TimePeriods : ExactlyOneConstraint(t)
        /\ ShortfallConsistent

\* C5 amended: after a builder has run, every period has exactly one reserve
\* constraint (of the form of the builder that ran, never both) when the
\* requirement is active and no reserve constraint when it is inactive, and
\* ReserveShortfall[t] exists with bounds consistent with the activity.
C5_Amended ==
    pc = "done" =>
        /\ check_reserve_requirement =>
               \A t \in TimePeriods :
                   /\ ExactlyOneConstraint(t)
                   /\ IsMaxPowerForm(EnforceReserveRequirements[t]) <=> builder = "CA"
        /\ ~check_reserve_requirement => Built = {}
        /\ ShortfallConsistent

C5_Witness ==
    /\ pc = "done" /\ builder = "MLR" /\ check_reserve_requirement
    /\ Built = TimePeriods
    /\ IsProvidedForm(EnforceReserveRequirements[LastPeriod])

\* --------------------------------------------------------------------- C6
\* C6: in a single run of a builder the variable family ReserveShortfall is
\* created exactly once on the model, never recreated or reassigned.
C6_CreatedOnce ==
    /\ shortfallDecls <= 1
    /\ pc = "done" => shortfallDecls = 1

\* --------------------------------------------------------------------- C7
\* C7: variant A selects the structured representation iff all five families
\* are decision variables, the weighted summation otherwise; the selection is
\* made before any per-period constraint is built and every period uses it.
C7_Selection ==
    builder = "CA" =>
        /\ linear_expr = "unset" => Built = {}
        /\ linear_expr # "unset" =>
               linear_expr = IF AllAreVars THEN "LinearExpression" ELSE "linear_summation"
        /\ \A t \in Built : EnforceReserveRequirements[t].body.repr = linear_expr
        /\ (pc = "done" /\ check_reserve_requirement) => linear_expr # "unset"

C7_Witness ==
    /\ builder = "CA" /\ pc = "done" /\ Built = TimePeriods
    /\ ~AllAreVars /\ \E f \in VarFamilies : is_var[f]
    /\ \A t \in Built : EnforceReserveRequirements[t].body.repr = "linear_summation"

\* --------------------------------------------------------------------- C8
\* Reorderings of a list of n entries: the rotations, the reversal and the
\* swap of the first two entries.
Reorderings(n) ==
    {[k \in 1..n |-> ((k + r - 1) % n) + 1] : r \in 0..(n - 1)}
    \cup {[k \in 1..n |-> n + 1 - k]}
    \cup {[k \in 1..n |-> IF k = 1 THEN 2 ELSE IF k = 2 THEN 1 ELSE k]}

Reordered(list, p) == [k \in 1..Len(list) |-> list[p[k]]]

OtherRepresentation(e) ==
    LET ms == Monomials(e)
        vs == [k \in 1..Len(ms) |-> ms[k][2]]
        cs == [k \in 1..Len(ms) |-> ms[k][1]]
    IN  IF e.repr = "LinearExpression"
        THEN linear_summation(vs, cs) ELSE LinearExpression(vs, cs)

C9_ShortfallNeverCoversDemand ==
    (builder = "CA" /\ pc = "done" /\ check_reserve_requirement) =>
        \A t \in Built :
            \A cap \in CapacityAssignments(t) :
                (\E s \in ReserveShortfall[t].lb..ReserveShortfall[t].ub :
                     Satisfied(EnforceReserveRequirements[t], WithShortfall(cap, t, s)))
                <=> NetCapacity(cap, t) >= TotalDemand[t]

C9_Witness ==
    /\ builder = "CA" /\ pc = "done" /\ check_reserve_requirement
    /\ Built = TimePeriods
    /\ ReserveRequirement[1] > 0 /\ TotalDemand[1] > 0
    /\ \E cap \in CapacityAssignments(1) :
           /\ NetCapacity(cap, 1) = TotalDemand[1]
           /\ ~Satisfied(EnforceReserveRequirements[1], WithShortfall(cap, 1, 0))
           /\ Satisfied(EnforceReserveRequirements[1],
                        WithShortfall(cap, 1, ReserveShortfall[1].ub))
    /\ \E cap \in CapacityAssignments(1) :
           /\ NetCapacity(cap, 1) < TotalDemand[1]
           /\ ~Satisfied(EnforceReserveRequirements[1],
                         WithShortfall(cap, 1, ReserveShortfall[1].ub))

\* -------------------------------------------------------------------- C10
\* C10: variant B, requirement active, ReserveRequirement[t] >= 0: for every
\* assignment of non-negative values to ReserveProvided[g,t] some value of
\* ReserveShortfall[t] within its bounds satisfies
\* EnforceReserveRequirements[t].
C10_VariantBFeasible ==
    (builder = "MLR" /\ pc = "done" /\ check_reserve_requirement) =>
        \A t \in Built :
            \A rp \in ProvidedAssignments(t) :
                \E s \in ReserveShortfall[t].lb..ReserveShortfall[t].ub :
                    Satisfied(EnforceReserveRequirements[t], WithShortfall(rp, t, s))

C10_Witness ==
    /\ builder = "MLR" /\ pc = "done" /\ check_reserve_requirement
    /\ Built = TimePeriods
    /\ ReserveRequirement[1] > 0
    /\ \E rp \in ProvidedAssignments(1) :
           /\ \A x \in DOMAIN rp : rp[x] = 0
           /\ ~Satisfied(EnforceReserveRequirements[1], WithShortfall(rp, 1, 0))
           /\ Satisfied(EnforceReserveRequirements[1],
                        WithShortfall(rp, 1, ReserveShortfall[1].ub))

====
